---- MODULE Spec2Model ----
(***************************************************************************)
(* ip-manager: a forward-auth gateway.  The model covers the whitelist     *)
(* cache (IpWhitelist in src/src/main.rs), the expiry arithmetic           *)
(* (new_valid_until), the request handlers (allowed, authorize), the       *)
(* worker threads (server_thread) and the pruner thread.                   *)
(*                                                                         *)
(* Time is an integer number of clock ticks since day 0, 00:00:00.  A      *)
(* minute has TicksPerMinute ticks, so that the clock is finer than the    *)
(* hour:minute:00 grid on which cut-off times lie.                         *)
(***************************************************************************)
EXTENDS Integers, Sequences, FiniteSets, TLC

\* ---------------------------------------------------------------- bounds
\* scaled-down calendar: ticks in a minute, minutes in an hour, hours in a day
TicksPerMinute == 2
MinutesPerHour == 2
HoursPerDay == 2
\* largest value of the `days` setting that is explored
MaxDays == 3
\* last calendar day a DateTime can represent (chrono's NaiveDate::MAX, scaled)
MaxDate == 3
\* the clock runs from 0 to MaxClock ticks
MaxClock == 9

TicksPerHour == MinutesPerHour * TicksPerMinute
TicksPerDay == HoursPerDay * TicksPerHour

\* ------------------------------------------------------ values and domains
Workers == {"w1", "w2"}
Addrs == {"a1", "a2"}
NoThread == "none"
NoEntry == [valid_until |-> -1, headers |-> <<>>]
\* outcome of an unwrap() on None: the thread panics
Panic == -1

\* ------------------------------------------------------- chrono arithmetic
\* NaiveTime::from_hms_opt(hour, minute, sec): ticks since midnight
from_hms_opt(h, m, s) ==
    IF h < HoursPerDay /\ m < MinutesPerHour /\ s < TicksPerMinute
    THEN (h * MinutesPerHour + m) * TicksPerMinute + s
    ELSE Panic

\* the calendar day of an instant and its time of day
date_of(d) == d \div TicksPerDay
time_of(d) == d % TicksPerDay

\* DateTime::checked_add_days: calendar-day addition, None past the last date
checked_add_days(d, n) ==
    IF date_of(d) + n > MaxDate THEN Panic ELSE d + n * TicksPerDay

\* a replacement of hour and minute only, which keeps the seconds of d
with_hour_minute(d, t) == date_of(d) * TicksPerDay + t + (d % TicksPerMinute)
\* DateTime::with_time: same calendar day, time of day replaced
with_time(d, t) == date_of(d) * TicksPerDay + t

\* a test that also takes the cut-off instant itself for past
AtOrPastCutoff(date, time) == (date - (date_of(date) * TicksPerDay + time)) >= 0
\* a test that never finds the cut-off past, so that no day is added
NeverPastCutoff(date, time) == FALSE
\* the test of main.rs:88, (date - date.with_time(time)) > TimeDelta::zero()
PastCutoff(date, time) == (date - with_time(date, time)) > 0

\* IpWhitelist::new_valid_until with Utc::now() = now; Panic when an unwrap fails
new_valid_until(now, h, m, ds) ==
    LET time == from_hms_opt(h, m, 0)
        date == checked_add_days(now, ds)
    IN  IF time = Panic \/ date = Panic THEN Panic
        ELSE IF PastCutoff(date, time)
             THEN LET next == checked_add_days(date, 1)
                  IN  IF next = Panic THEN Panic ELSE with_time(next, time)
             ELSE with_time(date, time)

\* a comparison that lets an entry through at the very instant it expires
StillValidAtExpiry(valid_until, now) == (valid_until - now) >= 0
\* the validity test of is_allowed (main.rs:45) and of prune's retain (main.rs:105)
StillValid(valid_until, now) == (valid_until - now) > 0

\* ------------------------------------------------------------ HTTP layer
\* longest header list of a request that is explored
MaxHeaders == 2
\* most Unblock messages the server's queue holds at once
MaxUnblocks == 2

XFF == "X-Forwarded-For"
\* the headers a request may carry: a forwarded address that parses, one that
\* does not, identity headers and a header that is not captured
HeaderPool ==
    { [field |-> XFF, value |-> "a2"],
      [field |-> XFF, value |-> "bogus"],
      [field |-> "Remote-User", value |-> "bob"],
      [field |-> "Remote-User", value |-> "eve"],
      [field |-> "X-Other", value |-> "x"] }
Urls == {"/allowed", "/authorize", "/foo"}
HeaderLists(n) == UNION { [1..k -> HeaderPool] : k \in 0..n }
Requests(n) == [url : Urls, remote_addr : Addrs, headers : HeaderLists(n)]

\* IpAddr::from_str: Ok(ip) for an IP literal, Err otherwise
NoAddr == "none"
ip_from_str(v) == IF v \in Addrs THEN v ELSE NoAddr

\* get_ip(rq) of main.rs:193: the first X-Forwarded-For header whose value
\* parses, else the peer address; the loop is scanned from index i
RECURSIVE forwarded_ip(_, _)
forwarded_ip(hs, i) ==
    IF i > Len(hs) THEN NoAddr
    ELSE IF hs[i].field = XFF /\ ip_from_str(hs[i].value) # NoAddr
         THEN ip_from_str(hs[i].value)
         ELSE forwarded_ip(hs, i + 1)

rq_get_ip(rq) ==
    IF forwarded_ip(rq.headers, 1) # NoAddr
    THEN forwarded_ip(rq.headers, 1)
    ELSE rq.remote_addr

\* settings.allow_list.contains(&addr) of allowed (main.rs:209)
never_listed(a, allowed) == FALSE
is_listed(a, allowed) == a \in allowed

\* no filter: every header of the request
all_headers(hs, allowed) == hs
\* authorize's header filter (main.rs:231-236)
filter_headers(hs, allowed) == SelectSeq(hs, LAMBDA x : x.field \in allowed)

\* ------------------------------------------------------------------ state
VARIABLES
    hour, minute, days,   \* IpWhitelist fields (settings.hour/minute/days)
    allow_list,           \* settings.allow_list
    headers,              \* settings.headers, the header names to capture
    list,                 \* IpWhitelist.list: address -> WhitelistElement or NoEntry
    writer, readers,      \* the RwLock: thread holding it exclusively / shared
    poisoned,             \* the RwLock's poison flag
    clock,                \* Utc::now()
    wk,                   \* per worker thread: position and locals
    pruner,               \* position of the pruner thread
    unblocks,             \* Unblock messages waiting in the server's queue
    main,                 \* position of the main thread: joining the workers / exit
    lastAuth              \* history: per address, the entry the last allow() call wrote

vars == <<hour, minute, days, allow_list, headers, list, writer, readers,
          poisoned, clock, wk, pruner, unblocks, main, lastAuth>>
config == <<hour, minute, days, allow_list, headers>>
shutdown == <<unblocks, main>>

\* a worker blocked in server.recv(): no request, no locals
Idle == [pc |-> "recv", url |-> "", addr |-> NoAddr, hdrs |-> <<>>, x |-> NoEntry,
         status |-> 0, out |-> <<>>]

\* a worker thread that unwound from a panic
Panicked == [Idle EXCEPT !.pc = "panicked"]

\* a worker thread that left its loop after server.recv() returned Err
Exited == [Idle EXCEPT !.pc = "exited"]

\* a worker about to call rq.respond on the request for url and addr
Responding(url, addr, status, out) ==
    [Idle EXCEPT !.pc = "respond", !.url = url, !.addr = addr,
                 !.status = status, !.out = out]

\* the state after IpWhitelist::build and the spawning of the threads
Built ==
    /\ list = [a \in Addrs |-> NoEntry]
    /\ writer = NoThread
    /\ readers = {}
    /\ poisoned = FALSE
    /\ clock = 0
    /\ wk = [w \in Workers |-> Idle]
    /\ pruner = "sleep"
    /\ unblocks = 0
    /\ main = "joining"
    /\ lastAuth = [a \in Addrs |-> NoEntry]

\* settings explored with two worker threads: cut-off 00:01, days 0 or MaxDays
Init ==
    /\ hour = 0
    /\ minute = 1
    /\ days \in {0, MaxDays}
    /\ allow_list = {"a2"}
    /\ headers = {"Remote-User"}
    /\ Built

\* every validated cut-off and every days setting up to MaxDays
InitExpiry ==
    /\ hour \in 0..(HoursPerDay - 1)
    /\ minute \in 0..(MinutesPerHour - 1)
    /\ days \in 0..MaxDays
    /\ allow_list = {"a2"}
    /\ headers = {"Remote-User"}
    /\ Built

\* one setting of the cut-off, for the handlers' treatment of header lists
InitHeader ==
    /\ hour = 0
    /\ minute = 1
    /\ days = 0
    /\ allow_list = {"a2"}
    /\ headers = {"Remote-User"}
    /\ Built

\* ------------------------------------------------------------- map operations
\* an update in place that refreshes the headers of an entry already there
\* and leaves its expiry
InsertInPlace(l, a, valid_until, hs) ==
    [l EXCEPT ![a] = [valid_until |-> IF l[a] = NoEntry THEN valid_until
                                      ELSE l[a].valid_until,
                      headers |-> hs]]
\* an insert that adds the headers to those of an entry already there
InsertMerge(l, a, valid_until, hs) ==
    [l EXCEPT ![a] = [valid_until |-> valid_until,
                      headers |-> IF l[a] = NoEntry THEN hs ELSE l[a].headers \o hs]]
\* an insert that keeps the entry already there (first writer wins)
InsertIfAbsent(l, a, valid_until, hs) ==
    IF l[a] = NoEntry
    THEN [l EXCEPT ![a] = [valid_until |-> valid_until, headers |-> hs]]
    ELSE l
\* HashMap::insert of a whole WhitelistElement (main.rs:74-80)
Insert(l, a, valid_until, hs) ==
    [l EXCEPT ![a] = [valid_until |-> valid_until, headers |-> hs]]
\* a removal that clears the map
RemoveAll(l, a) == [b \in Addrs |-> NoEntry]
\* HashMap::remove (main.rs:69)
Remove(l, a) == [l EXCEPT ![a] = NoEntry]
\* retain with the closure's comparison turned round
RetainExpired(l, now) ==
    [a \in Addrs |-> IF l[a] # NoEntry /\ ~StillValid(l[a].valid_until, now)
                     THEN l[a] ELSE NoEntry]
\* retain that keeps an entry at the very instant it expires
RetainAtExpiry(l, now) ==
    [a \in Addrs |-> IF l[a] # NoEntry /\ (l[a].valid_until - now) >= 0
                     THEN l[a] ELSE NoEntry]
\* HashMap::retain with the closure of main.rs:105
Retain(l, now) ==
    [a \in Addrs |-> IF l[a] # NoEntry /\ StillValid(l[a].valid_until, now)
                     THEN l[a] ELSE NoEntry]

\* ---------------------------------------------------------- worker threads
\* a dispatch that hands every URL other than /authorize to the allowed handler
RecvNoRoute(w, rq) ==
    /\ wk[w].pc = "recv"
    /\ wk' = [wk EXCEPT ![w] =
         CASE rq.url = "/authorize" ->
                [Idle EXCEPT !.pc = "allow", !.url = rq.url, !.addr = rq_get_ip(rq),
                             !.hdrs = filter_headers(rq.headers, headers)]
           [] OTHER ->
                IF is_listed(rq_get_ip(rq), allow_list)
                THEN Responding(rq.url, rq_get_ip(rq), 200, <<>>)
                ELSE [Idle EXCEPT !.pc = "get_ip", !.url = rq.url,
                                  !.addr = rq_get_ip(rq)]]
    /\ UNCHANGED <<config, shutdown, list, writer, readers, poisoned, clock, pruner, lastAuth>>

\* server_thread's dispatch of one received request (main.rs:172-185) up to the
\* first cache operation
Recv(w, rq) ==
    /\ wk[w].pc = "recv"
    /\ wk' = [wk EXCEPT ![w] =
         CASE rq.url = "/allowed" ->
                IF is_listed(rq_get_ip(rq), allow_list)
                THEN Responding(rq.url, rq_get_ip(rq), 200, <<>>)
                ELSE [Idle EXCEPT !.pc = "get_ip", !.url = rq.url,
                                  !.addr = rq_get_ip(rq)]
           [] rq.url = "/authorize" ->
                [Idle EXCEPT !.pc = "allow", !.url = rq.url, !.addr = rq_get_ip(rq),
                             !.hdrs = filter_headers(rq.headers, headers)]
           [] OTHER -> Responding("/foo", NoAddr, 404, <<>>)]
    /\ UNCHANGED <<config, shutdown, list, writer, readers, poisoned, clock, pruner, lastAuth>>

\* rq.respond(...) and back to server.recv()
Respond(w) ==
    /\ wk[w].pc = "respond"
    /\ wk' = [wk EXCEPT ![w] = Idle]
    /\ UNCHANGED <<config, shutdown, list, writer, readers, poisoned, clock, pruner, lastAuth>>

\* a read lock granted without waiting for the writer to release
GetIpLockNoWait(w) ==
    /\ wk[w].pc = "get_ip"
    /\ IF poisoned
       THEN /\ wk' = [wk EXCEPT ![w] = Panicked]
            /\ UNCHANGED readers
       ELSE /\ wk' = [wk EXCEPT ![w].pc = "reading"]
            /\ readers' = readers \cup {w}
    /\ UNCHANGED <<config, shutdown, list, writer, poisoned, clock, pruner, lastAuth>>

\* get_ip: self.list.read().expect(..) (main.rs:58); a poisoned lock panics
GetIpLock(w) ==
    /\ wk[w].pc = "get_ip"
    /\ writer = NoThread
    /\ IF poisoned
       THEN /\ wk' = [wk EXCEPT ![w] = Panicked]
            /\ UNCHANGED readers
       ELSE /\ wk' = [wk EXCEPT ![w].pc = "reading"]
            /\ readers' = readers \cup {w}
    /\ UNCHANGED <<config, shutdown, list, writer, poisoned, clock, pruner, lastAuth>>

\* get_ip: .get(addr), clone of the whole element, read guard dropped;
\* is_allowed's None branch answers 403 (main.rs:52-54, 221-225)
GetIpRead(w) ==
    /\ wk[w].pc = "reading"
    /\ readers' = readers \ {w}
    /\ wk' = [wk EXCEPT ![w] =
         IF list[wk[w].addr] = NoEntry
         THEN Responding(wk[w].url, wk[w].addr, 403, <<>>)
         ELSE [@ EXCEPT !.pc = "compare", !.x = list[wk[w].addr]]]
    /\ UNCHANGED <<config, shutdown, list, writer, poisoned, clock, pruner, lastAuth>>

\* is_allowed: the comparison with Utc::now() (main.rs:45)
Compare(w) ==
    /\ wk[w].pc = "compare"
    /\ wk' = [wk EXCEPT ![w] =
         IF StillValid(wk[w].x.valid_until, clock)
         THEN Responding(wk[w].url, wk[w].addr, 200, wk[w].x.headers)
         ELSE [@ EXCEPT !.pc = "delete_ip", !.x = NoEntry]]
    /\ UNCHANGED <<config, shutdown, list, writer, readers, poisoned, clock, pruner, lastAuth>>

\* delete_ip: self.list.write().expect(..) (main.rs:66-68)
DeleteLock(w) ==
    /\ wk[w].pc = "delete_ip"
    /\ writer = NoThread /\ readers = {}
    /\ IF poisoned
       THEN /\ wk' = [wk EXCEPT ![w] = Panicked]
            /\ UNCHANGED writer
       ELSE /\ wk' = [wk EXCEPT ![w].pc = "deleting"]
            /\ writer' = w
    /\ UNCHANGED <<config, shutdown, list, readers, poisoned, clock, pruner, lastAuth>>

\* delete_ip: .remove(addr), write guard dropped; is_allowed returns Err, 403
DeleteRemove(w) ==
    /\ wk[w].pc = "deleting"
    /\ list' = Remove(list, wk[w].addr)
    /\ lastAuth' = [lastAuth EXCEPT ![wk[w].addr] = NoEntry]
    /\ writer' = NoThread
    /\ wk' = [wk EXCEPT ![w] = Responding(wk[w].url, wk[w].addr, 403, <<>>)]
    /\ UNCHANGED <<config, shutdown, readers, poisoned, clock, pruner>>

\* a write lock taken from a poisoned lock as from a sound one
AllowLockRecover(w) ==
    /\ wk[w].pc = "allow"
    /\ writer = NoThread /\ readers = {}
    /\ wk' = [wk EXCEPT ![w].pc = "inserting"]
    /\ writer' = w
    /\ UNCHANGED <<config, shutdown, list, readers, poisoned, clock, pruner, lastAuth>>

\* allow: self.list.write().expect(..) (main.rs:73)
AllowLock(w) ==
    /\ wk[w].pc = "allow"
    /\ writer = NoThread /\ readers = {}
    /\ IF poisoned
       THEN /\ wk' = [wk EXCEPT ![w] = Panicked]
            /\ UNCHANGED writer
       ELSE /\ wk' = [wk EXCEPT ![w].pc = "inserting"]
            /\ writer' = w
    /\ UNCHANGED <<config, shutdown, list, readers, poisoned, clock, pruner, lastAuth>>

\* allow: new_valid_until() and insert under the write guard (main.rs:74-81);
\* an unwrap that fails unwinds with the guard held, which poisons the lock
AllowInsert(w) ==
    /\ wk[w].pc = "inserting"
    /\ writer' = NoThread
    /\ LET v == new_valid_until(clock, hour, minute, days)
       IN  IF v = Panic
           THEN /\ poisoned' = TRUE
                /\ wk' = [wk EXCEPT ![w] = Panicked]
                /\ UNCHANGED <<list, lastAuth>>
           ELSE /\ list' = Insert(list, wk[w].addr, v, wk[w].hdrs)
                /\ lastAuth' = [lastAuth EXCEPT ![wk[w].addr] =
                                   [valid_until |-> v, headers |-> wk[w].hdrs]]
                /\ wk' = [wk EXCEPT ![w] = Responding(wk[w].url, wk[w].addr, 200, <<>>)]
                /\ UNCHANGED poisoned
    /\ UNCHANGED <<config, shutdown, readers, clock, pruner>>

\* ------------------------------------------------------------------ pruner
\* prune: self.list.write().expect(..) (main.rs:102)
PruneLock ==
    /\ pruner = "sleep"
    /\ writer = NoThread /\ readers = {}
    /\ IF poisoned
       THEN /\ pruner' = "panicked"
            /\ UNCHANGED writer
       ELSE /\ pruner' = "pruning"
            /\ writer' = "pruner"
    /\ UNCHANGED <<config, shutdown, list, readers, poisoned, clock, wk, lastAuth>>

\* prune: now = Utc::now(), retain, write guard dropped (main.rs:103-106)
PruneRetain ==
    /\ pruner = "pruning"
    /\ list' = Retain(list, clock)
    /\ lastAuth' = [a \in Addrs |-> IF Retain(list, clock)[a] = NoEntry
                                    THEN NoEntry ELSE lastAuth[a]]
    /\ writer' = NoThread
    /\ pruner' = "sleep"
    /\ UNCHANGED <<config, shutdown, readers, poisoned, clock, wk>>

\* ------------------------------------------------------------------- clock
Tick ==
    /\ clock < MaxClock
    /\ clock' = clock + 1
    /\ UNCHANGED <<config, shutdown, list, writer, readers, poisoned, wk, pruner, lastAuth>>

\* ---------------------------------------------------------------- shutdown
\* the ctrlc handler (main.rs:130-140): one server.unblock() per worker thread,
\* each of which queues one Unblock message
CtrlC ==
    /\ unblocks + Cardinality(Workers) <= MaxUnblocks
    /\ unblocks' = unblocks + Cardinality(Workers)
    /\ UNCHANGED <<config, main, list, writer, readers, poisoned, clock, wk, pruner, lastAuth>>

\* server.recv() takes an Unblock message and returns Err: "Thread exit", break
\* (main.rs:186-189)
RecvUnblock(w) ==
    /\ wk[w].pc = "recv"
    /\ unblocks > 0
    /\ unblocks' = unblocks - 1
    /\ wk' = [wk EXCEPT ![w] = Exited]
    /\ UNCHANGED <<config, main, list, writer, readers, poisoned, clock, pruner, lastAuth>>

\* a worker thread that has ended, by leaving its loop or by a panic
Terminated(w) == wk[w].pc \in {"exited", "panicked"}

\* main: every guard.join() has returned, "Server exit", the process ends
\* (main.rs:163-167)
JoinAll ==
    /\ main = "joining"
    /\ \A w \in Workers : Terminated(w)
    /\ main' = "exit"
    /\ UNCHANGED <<config, unblocks, list, writer, readers, poisoned, clock, wk, pruner, lastAuth>>

\* the steps of a worker thread after it has received a request
Check(w) == GetIpLock(w) \/ GetIpRead(w) \/ Compare(w)
Delete(w) == DeleteLock(w) \/ DeleteRemove(w)
Allow(w) == AllowLock(w) \/ AllowInsert(w)
Prune == PruneLock \/ PruneRetain

\* settings.threads = 2: both workers and the pruner, requests of up to one header
Next ==
    \/ \E w \in Workers, rq \in Requests(1) : Recv(w, rq)
    \/ \E w \in Workers : Respond(w)
    \/ \E w \in Workers : Check(w)
    \/ \E w \in Workers : Delete(w)
    \/ \E w \in Workers : Allow(w)
    \/ Prune
    \/ Tick

Spec == Init /\ [][Next]_vars

\* settings.threads = 1 (the default): one worker and the pruner
NextExpiry ==
    \/ \E rq \in Requests(1) : Recv("w1", rq)
    \/ Respond("w1")
    \/ Check("w1")
    \/ Delete("w1")
    \/ Allow("w1")
    \/ Prune
    \/ Tick

ExpirySpec == InitExpiry /\ [][NextExpiry]_vars

\* settings.threads = 2 with the ctrlc handler and main's joins; nothing runs
\* once the process has ended
NextShutdown ==
    \/ \E w \in Workers, rq \in Requests(0) : main = "joining" /\ Recv(w, rq)
    \/ \E w \in Workers : main = "joining" /\ Respond(w)
    \/ \E w \in Workers : main = "joining" /\ Check(w)
    \/ \E w \in Workers : main = "joining" /\ Delete(w)
    \/ \E w \in Workers : main = "joining" /\ Allow(w)
    \/ \E w \in Workers : main = "joining" /\ RecvUnblock(w)
    \/ main = "joining" /\ Prune
    \/ main = "joining" /\ Tick
    \/ main = "joining" /\ CtrlC
    \/ JoinAll

ShutdownSpec == Init /\ [][NextShutdown]_vars

\* one worker handling requests of up to MaxHeaders headers at one instant
NextHeader ==
    \/ \E rq \in Requests(MaxHeaders) : Recv("w1", rq)
    \/ Respond("w1")
    \/ Check("w1")
    \/ Allow("w1")

HeaderSpec == InitHeader /\ [][NextHeader]_vars

\* ------------------------------------------------------------- properties
\* IpWhitelist::is_allowed (main.rs:42-55) run without interruption on map l
\* at instant now: the Result it returns
Err == [ok |-> FALSE, headers |-> <<>>]
Ok(hs) == [ok |-> TRUE, headers |-> hs]
is_allowed(l, a, now) ==
    IF l[a] # NoEntry /\ StillValid(l[a].valid_until, now)
    THEN Ok(l[a].headers)
    ELSE Err

\* the cut-off time of day of the settings, in ticks since midnight
Cutoff == (hour * MinutesPerHour + minute) * TicksPerMinute

\* steps of worker w, recognised by its position before and after
Inserted(w) == wk[w].pc = "inserting" /\ wk'[w].pc = "respond"
LazyDeleted(w) == wk[w].pc = "deleting" /\ wk'[w].pc = "respond"
Compared(w) == wk[w].pc = "compare" /\ wk'[w].pc # "compare"
ReadEntry(w) == wk[w].pc = "reading" /\ wk'[w].pc # "reading"
Pruned == pruner = "pruning" /\ pruner' = "sleep"
InCheck(w) == wk[w].pc \in {"get_ip", "reading", "compare", "delete_ip", "deleting"}
Unexpired(e, now) == e # NoEntry /\ e.valid_until > now
Expired(e, now) == e # NoEntry /\ e.valid_until <= now

\* C1: a check(a) that runs right after authorize(a, H) has returned, with no
\* other operation and no time in between, returns success with exactly H.
C1_CheckAfterAuthorize ==
    [][\A w \in Workers :
         Inserted(w) =>
           is_allowed(list', wk[w].addr, clock') = Ok(wk[w].hdrs)]_vars

\* C2: no step removes an entry that is unexpired at the time of the step: an
\* entry written by authorize stays until it expires or is overwritten, so the
\* delete of a check that saw the old entry expired never removes the new one.
C2_FreshEntryKept ==
    [][\A a \in Addrs :
         Unexpired(list[a], clock) => list'[a] # NoEntry]_vars

\* C3: check answers success only from the comparison step, and only when the
\* entry it read expires strictly later than the instant of the comparison.
C3_NeverValidPastExpiry ==
    [][\A w \in Workers :
         /\ (InCheck(w) /\ wk'[w].pc = "respond" /\ wk'[w].status = 200)
               => (wk[w].pc = "compare" /\ Unexpired(wk[w].x, clock))
         /\ (Compared(w) /\ Expired(wk[w].x, clock))
               => (wk'[w].pc = "delete_ip" /\ wk'[w].status = 0)]_vars

\* a check has answered success with the captured headers of an entry
C3_Witness ==
    \E w \in Workers :
        /\ wk[w].pc = "respond" /\ wk[w].url = "/allowed"
        /\ wk[w].status = 200 /\ wk[w].out # <<>>

\* the reference expiry of an authorize at instant now
ReferenceExpiry(now) ==
    LET D == date_of(now) + days
    IN  IF time_of(now) > Cutoff
        THEN (D + 1) * TicksPerDay + Cutoff
        ELSE D * TicksPerDay + Cutoff

\* C4: the expiry authorize stores equals the reference: with D the date of
\* now plus advance_days, day D + 1 at the cut-off when now's time of day is
\* strictly after the cut-off, day D at the cut-off otherwise (a now exactly
\* at the cut-off does not take the extra day).
C4_ExpiryIsReference ==
    [][\A w \in Workers :
         Inserted(w) =>
           list'[wk[w].addr].valid_until = ReferenceExpiry(clock)]_vars

\* an authorize made on day 0 at or before the cut-off with advance_days = 2
\* has stored day 2 at the cut-off
C4_Witness ==
    \E w \in Workers :
        /\ wk[w].pc = "respond" /\ wk[w].url = "/authorize"
        /\ days = 2 /\ Cutoff > 0 /\ clock <= Cutoff
        /\ list[wk[w].addr].valid_until = 2 * TicksPerDay + Cutoff

\* C5: every entry's expiry lies exactly on the cut-off time of day, and an
\* entry is only ever written whole, with an expiry not earlier than the
\* instant of its authorize plus advance_days days.
C5_ExpiryOnCutoff ==
    [][\A a \in Addrs :
         list'[a] # NoEntry =>
           /\ time_of(list'[a].valid_until) = Cutoff
           /\ list'[a].valid_until % TicksPerMinute = 0
           /\ \/ list'[a] = list[a]
              \/ \E w \in Workers :
                   /\ Inserted(w) /\ wk[w].addr = a
                   /\ list'[a].valid_until >= clock + days * TicksPerDay]_vars

\* an entry written between two minutes under a cut-off that is not midnight
C5_Witness ==
    \E w \in Workers :
        /\ wk[w].pc = "inserting" /\ clock % TicksPerMinute # 0
        /\ Cutoff > 0 /\ days = 1
        /\ \E a \in Addrs : list[a] # NoEntry

\* C6: prune removes no entry that is unexpired at the instant it samples the
\* clock: such an entry is the same before and after, and nothing changes the
\* map while prune holds the lock.
C6_PruneKeepsUnexpired ==
    [][/\ Pruned =>
            \A a \in Addrs : Unexpired(list[a], clock) => list'[a] = list[a]
       /\ (pruner = "pruning" /\ pruner' = "pruning") => list' = list]_vars

\* prune runs on a map that holds an unexpired entry beside an expired one
C6_Witness ==
    /\ pruner = "pruning"
    /\ \E a, b \in Addrs : Unexpired(list[a], clock) /\ Expired(list[b], clock)

\* C7: when prune returns no entry is expired at the instant it sampled, a
\* second prune at that instant changes nothing, prune changes nothing when no
\* entry is expired, and a check that finds its entry expired fails with 403.
C7_PruneRemovesExpired ==
    [][/\ Pruned =>
            /\ \A a \in Addrs : ~Expired(list'[a], clock)
            /\ Retain(list', clock) = list'
            /\ (\A a \in Addrs : ~Expired(list[a], clock)) => list' = list
       /\ \A w \in Workers :
            /\ (Compared(w) /\ Expired(wk[w].x, clock)) => wk'[w].pc = "delete_ip"
            /\ LazyDeleted(w) => (wk'[w].status = 403 /\ wk'[w].out = <<>>)]_vars

\* prune runs on a map that holds an entry at the very instant of its expiry
C7_Witness ==
    /\ pruner = "pruning"
    /\ \E a \in Addrs : list[a] # NoEntry /\ list[a].valid_until = clock

\* C8: the map holds, per address, the whole entry of one allow call; a check
\* copies that whole entry in one step and answers with the headers of the
\* copy, tested against the expiry of the same copy.
C8_WholeEntry ==
    [][\A w \in Workers :
         /\ (ReadEntry(w) /\ wk'[w].pc = "compare")
               => (wk'[w].x = lastAuth[wk[w].addr] /\ wk'[w].x # NoEntry)
         /\ (Compared(w) /\ wk'[w].pc = "respond")
               => /\ wk'[w].out = wk[w].x.headers
                  /\ wk[w].x.valid_until > clock]_vars

\* a check holds the copy of an entry that another authorize has overwritten
\* with other headers
C8_Witness ==
    \E w \in Workers :
        /\ wk[w].pc = "compare"
        /\ list[wk[w].addr] # NoEntry
        /\ list[wk[w].addr].headers # wk[w].x.headers

\* C9: /allowed for an address of the static allow-list is answered 200 at
\* once, without a step on the cache: the map and the lock are as before, and
\* no check is ever under way for an allow-listed address.
C9_AllowListBypass ==
    [][\A w \in Workers :
         /\ (wk[w].pc = "recv" /\ wk'[w].url = "/allowed"
                               /\ wk'[w].addr \in allow_list)
               => /\ wk'[w].pc = "respond" /\ wk'[w].status = 200
                  /\ list' = list /\ writer' = writer /\ readers' = readers
         /\ InCheck(w)' => wk'[w].addr \notin allow_list]_vars

\* /allowed for an allow-listed address is answered 200 while the map holds
\* an expired entry for it
C9_Witness ==
    \E w \in Workers :
        /\ wk[w].pc = "respond" /\ wk[w].url = "/allowed" /\ wk[w].status = 200
        /\ wk[w].addr \in allow_list
        /\ Expired(list[wk[w].addr], clock)

\* the sub-sequence of hs whose names are in settings.headers, in order
RECURSIVE CapturedOf(_)
CapturedOf(hs) ==
    IF hs = <<>> THEN <<>>
    ELSE (IF Head(hs).field \in headers THEN <<Head(hs)>> ELSE <<>>)
         \o CapturedOf(Tail(hs))

\* C10: authorize stores for the resolved address the headers of the request
\* whose name is in settings.headers, in request order and unchanged, and
\* nothing else; a successful /allowed replays the stored list.
C10_StoresCapturedHeaders ==
    [][/\ (wk["w1"].pc = "recv" /\ wk'["w1"].pc = "allow")
               => \A rq \in [url : {"/authorize"}, remote_addr : Addrs,
                             headers : HeaderLists(MaxHeaders)] :
                     Recv("w1", rq) => wk'["w1"].hdrs = CapturedOf(rq.headers)
       /\ Inserted("w1")
               => /\ list'[wk["w1"].addr].headers = wk["w1"].hdrs
                  /\ \A b \in Addrs \ {wk["w1"].addr} : list'[b] = list[b]
       /\ (ReadEntry("w1") /\ wk'["w1"].pc = "compare")
               => wk'["w1"].x = list[wk["w1"].addr]
       /\ (Compared("w1") /\ wk'["w1"].pc = "respond")
               => (wk'["w1"].status = 200 /\ wk'["w1"].out = wk["w1"].x.headers)]_vars

\* /allowed replays two captured headers in the order of the authorize request
C10_Witness ==
    /\ wk["w1"].pc = "respond" /\ wk["w1"].url = "/allowed"
    /\ wk["w1"].status = 200
    /\ wk["w1"].out = << [field |-> "Remote-User", value |-> "eve"],
                        [field |-> "Remote-User", value |-> "bob"] >>

\* C11: authorize never fails: under every validated setting and at every
\* instant, each step of an authorize call takes the write lock or completes
\* with an entry for the address left in the cache and the answer 200; none
\* aborts the thread and none leaves the lock poisoned.
C11_AuthorizeSucceeds ==
    [][\A w \in Workers :
         (wk[w].pc \in {"allow", "inserting"} /\ wk'[w].pc # wk[w].pc) =>
           /\ wk'[w].pc \in {"inserting", "respond"}
           /\ ~poisoned'
           /\ wk'[w].pc = "respond" =>
                 (list'[wk[w].addr] # NoEntry /\ wk'[w].status = 200)]_vars

\* IpWhitelist::allow (main.rs:72-81) run without interruption on map l at
\* instant now
AllowAt(l, a, hs, now) == Insert(l, a, new_valid_until(now, hour, minute, days), hs)

\* C12: authorize is idempotent at one instant: the map an authorize(a, H)
\* leaves is the map one call makes of the map before it, and one more
\* authorize(a, H) with the clock unchanged leaves that map as it is: one
\* entry for a with the same expiry and headers, every other entry unchanged.
C12_AuthorizeIdempotent ==
    [][\A w \in Workers :
         Inserted(w) =>
           /\ list' = AllowAt(list, wk[w].addr, wk[w].hdrs, clock)
           /\ AllowAt(list', wk[w].addr, wk[w].hdrs, clock') = list'
           /\ \A a \in Addrs \ {wk[w].addr} : list'[a] = list[a]]_vars
\* an authorize about to write over the entry that the same authorize left
\* at the same instant, with captured headers
C12_Witness ==
    \E w \in Workers :
        /\ wk[w].pc = "inserting"
        /\ wk[w].hdrs # <<>>
        /\ list[wk[w].addr] = lastAuth[wk[w].addr]
        /\ new_valid_until(clock, hour, minute, days) # Panic
        /\ list = AllowAt(list, wk[w].addr, wk[w].hdrs, clock)

\* worker w takes a request from server.recv()
Received(w) == wk[w].pc = "recv" /\ wk'[w].pc \notin {"recv", "exited"}

\* C13: a request whose URL is neither /allowed nor /authorize is answered
\* 404 with no headers, whatever the cache holds and whatever address sent it,
\* and the step leaves the cache and its lock as they were.
C13_UnknownUrl404 ==
    [][\A w \in Workers :
         (Received(w) /\ wk'[w].url \notin {"/allowed", "/authorize"}) =>
           /\ wk'[w].pc = "respond"
           /\ wk'[w].status = 404
           /\ wk'[w].out = <<>>
           /\ UNCHANGED <<list, writer, readers, poisoned>>]_vars
\* a 404 about to be sent while the cache holds an entry
C13_Witness ==
    \E w \in Workers :
        /\ wk[w].pc = "respond"
        /\ wk[w].url \notin {"/allowed", "/authorize"}
        /\ wk[w].status = 404
        /\ \E a \in Addrs : list[a] # NoEntry

\* a step that worker w takes inside is_allowed
CheckStep(w) == InCheck(w) /\ wk'[w] # wk[w]

\* C15: a check changes the cache only by its lazy delete: every other step
\* of a check leaves the map unchanged, and the lazy delete removes exactly one
\* entry, the one of the checked address, and leaves every other entry alone,
\* in every interleaving.
C15_CheckFrame ==
    [][\A w \in Workers :
         CheckStep(w) =>
           IF LazyDeleted(w)
           THEN /\ list[wk[w].addr] # NoEntry
                /\ list' = [list EXCEPT ![wk[w].addr] = NoEntry]
           ELSE list' = list]_vars

\* C15 (amended): every step of a check other than its lazy delete leaves the
\* map unchanged, and the lazy delete removes at most one entry: whatever entry
\* the checked address has when the delete holds the write lock, none if a
\* prune or another check has removed it meanwhile; every other entry stays.
C15_CheckFrameAtMostOne ==
    [][\A w \in Workers :
         CheckStep(w) =>
           IF LazyDeleted(w)
           THEN list' = [list EXCEPT ![wk[w].addr] = NoEntry]
           ELSE list' = list]_vars
\* a lazy delete holding the write lock for an address whose entry is already
\* gone, while another address has an entry
C15_Witness ==
    \E w \in Workers :
        /\ wk[w].pc = "deleting"
        /\ list[wk[w].addr] = NoEntry
        /\ \E a \in Addrs \ {wk[w].addr} : list[a] # NoEntry

\* the threads that are inside a section guarded by the write lock, and by the
\* read lock, by their positions
WriteHolders ==
    {w \in Workers : wk[w].pc \in {"deleting", "inserting"}}
        \cup (IF pruner = "pruning" THEN {"pruner"} ELSE {})
ReadHolders == {w \in Workers : wk[w].pc = "reading"}

\* the lock is free, held by one writer alone, or held by readers only
LockDiscipline ==
    /\ Cardinality(WriteHolders) <= 1
    /\ WriteHolders # {} => ReadHolders = {}
    /\ WriteHolders = (IF writer = NoThread THEN {} ELSE {writer})
    /\ ReadHolders = readers

\* C16: at every moment the lock is held by no thread, by one writer alone, or
\* by readers and no writer; a check that succeeds or finds no entry never
\* holds the write lock; the map changes only in a step of the thread that
\* holds the write lock.
C16_LockDiscipline ==
    /\ LockDiscipline
    /\ [][/\ LockDiscipline'
          /\ \A w \in Workers :
              (wk[w].pc \in {"get_ip", "reading", "compare"}
                 /\ wk'[w].pc \in {"reading", "compare", "respond"})
                => (writer # w /\ writer' # w)
          /\ list' # list =>
                /\ writer # NoThread /\ readers = {}
                /\ writer' = NoThread
                /\ \/ writer = "pruner" /\ Pruned
                   \/ writer \in Workers /\ wk'[writer].pc = "respond"
                         /\ wk[writer].pc \in {"deleting", "inserting"}]_vars
\* two checks hold the read lock at once
C16_Witness == Cardinality(readers) >= 2 /\ writer = NoThread

\* C17: authorizes of one address are serialised by the write lock and the last
\* one wins: the step in which an authorize(a, H) holds the write lock leaves
\* for a the one entry with H and the expiry computed at that step, whatever
\* entry another authorize left before; that entry stays as written until the
\* next authorize or delete of a; and the expiry stored for a never decreases
\* from one overwrite to the next.
C17_LastWriterWins ==
    [][/\ \A w \in Workers :
            Inserted(w) =>
              /\ list'[wk[w].addr] =
                    [valid_until |-> new_valid_until(clock, hour, minute, days),
                     headers |-> wk[w].hdrs]
              /\ list[wk[w].addr] # NoEntry =>
                    list'[wk[w].addr].valid_until >= list[wk[w].addr].valid_until
       /\ \A a \in Addrs :
            list'[a] # list[a] =>
              \/ list'[a] = NoEntry
              \/ \E w \in Workers : Inserted(w) /\ wk[w].addr = a]_vars
\* two authorizes of one address with different headers at once: one holds
\* the write lock and is about to write over an entry with an earlier expiry,
\* the other waits for the lock
C17_Witness ==
    \E w, v \in Workers :
        /\ w # v
        /\ wk[w].pc = "inserting" /\ wk[v].pc = "allow"
        /\ wk[w].addr = wk[v].addr
        /\ wk[w].hdrs # wk[v].hdrs
        /\ list[wk[w].addr] # NoEntry
        /\ list[wk[w].addr].headers # wk[w].hdrs
        /\ new_valid_until(clock, hour, minute, days) # Panic
        /\ list[wk[w].addr].valid_until < new_valid_until(clock, hour, minute, days)

\* worker w takes a request and has its answer without a cache operation
ServedWithoutCache(w) == Received(w) /\ wk'[w].pc = "respond"

InOperation(w) ==
    wk[w].pc \in {"get_ip", "reading", "compare", "delete_ip", "deleting",
                  "allow", "inserting"}

\* C19: no thread requests the lock while it holds it, and every check,
\* authorize and prune that has started runs to completion: no step cuts a
\* started operation short, neither a worker's nor the pruner's.
C19_OperationsComplete ==
    [][/\ \A w \in Workers :
            /\ (wk'[w].pc \in {"get_ip", "delete_ip", "allow"} /\ wk'[w] # wk[w])
                  => (w \notin readers' /\ writer' # w)
            /\ InOperation(w) => wk'[w].pc # "panicked"
       /\ pruner' # "panicked"]_vars

\* C20: the expiry an authorize stores is the earliest cut-off not before the
\* instant of the call plus days whole days: it is at or after now + days days
\* and before now + (days + 1) days.
C20_ExpiryWindow ==
    [][\A w \in Workers :
         Inserted(w) =>
           /\ clock + days * TicksPerDay <= list'[wk[w].addr].valid_until
           /\ list'[wk[w].addr].valid_until < clock + (days + 1) * TicksPerDay]_vars
\* an authorize with days >= 1 has just stored an expiry on the very edge of
\* the window: the call came exactly at the cut-off
C20_Witness ==
    \E w \in Workers :
        /\ wk[w].pc = "respond" /\ wk[w].url = "/authorize"
        /\ days >= 1
        /\ list[wk[w].addr] = lastAuth[wk[w].addr]
        /\ list[wk[w].addr].valid_until = clock + days * TicksPerDay

\* the termination signal has been delivered: the handler's Unblock messages
\* are in the queue or have been taken
Signalled == unblocks + Cardinality({w \in Workers : wk[w].pc = "exited"}) > 0

\* C14: after the termination signal every worker receives one stop indication
\* from recv and leaves its loop, so when main has joined all workers and the
\* process ends, each worker has ended that way and no stop indication is left.
C14_EveryWorkerStopped ==
    (main = "exit" /\ Signalled) =>
        /\ \A w \in Workers : wk[w].pc = "exited"
        /\ unblocks % Cardinality(Workers) = 0
====
